---- MODULE Spec2Model ----
(***************************************************************************)
(* Model of the subagent orchestration tool of src/src/extension.ts:       *)
(* OrchestrateSubagentsTool.invoke (validation, model resolution, tool     *)
(* catalogue, fan-out with Promise.all, aggregation) and runSubagent (the  *)
(* turn loop, tool dispatch, budget-exhaustion summary).                   *)
(*                                                                         *)
(* Every state of a subagent is one of the await points of runSubagent;    *)
(* every action resumes one await and runs the code up to the next one.    *)
(* The chat model, the tool registry and the cancellation token are the    *)
(* environment: their answers are nondeterministic choices.                *)
(***************************************************************************)
EXTENDS Integers, Sequences, FiniteSets, TLC

----------------------------------------------------------------------------
(* Program constants                                                       *)

MinAgents == 1
MaxAgents == 3
MinTurns == 1
MaxTurnsLimit == 100
DefaultMaxTurns == 50
SelfName == "orchestrateSubagents"

(* Bounds of the model                                                     *)

\* largest maxTurns requested of a single subagent in the run specifications
MaxTurnsRun == 3
\* largest sum of the maxTurns of a request in the fan-out specification
MaxTotalTurns == 3
\* largest maxTurns requested in the text specification
MaxTurnsText == 2

----------------------------------------------------------------------------
(* Text: a string is a sequence of one-character strings                   *)

Whitespace == {" ", "\n"}

RECURSIVE TrimStart(_)
TrimStart(s) ==
  IF s = <<>> THEN <<>>
  ELSE IF Head(s) \in Whitespace THEN TrimStart(Tail(s)) ELSE s

RECURSIVE TrimEnd(_)
TrimEnd(s) ==
  IF s = <<>> THEN <<>>
  ELSE IF s[Len(s)] \in Whitespace THEN TrimEnd(SubSeq(s, 1, Len(s) - 1)) ELSE s

\* String.prototype.trim
Trim(s) == TrimEnd(TrimStart(s))

BlankLine == <<"\n", "\n">>

----------------------------------------------------------------------------
(* Stream parts                                                            *)

NoCallId == <<>>
TextPart(v) == [type |-> "text", value |-> v, name |-> "", callId |-> NoCallId]
ToolCallPart(n) == [type |-> "toolCall", value |-> <<>>, name |-> n, callId |-> NoCallId]
\* a part that is neither a LanguageModelTextPart nor a LanguageModelToolCallPart
OtherPart == [type |-> "other", value |-> <<>>, name |-> "", callId |-> NoCallId]

\* The chat model gives every tool call of a response an identifier that is
\* unique within the transcript: (number of the request, position in the stream).
StampCallIds(stream, reqNo) ==
  [k \in 1..Len(stream) |->
     IF stream[k].type = "toolCall"
     THEN [stream[k] EXCEPT !.callId = <<reqNo, k>>]
     ELSE stream[k]]

IsText(p) == p.type = "text"
IsToolCall(p) == p.type = "toolCall"
IsAssistantPart(p) == p.type \in {"text", "toolCall"}

RECURSIVE JoinValues(_)
\* parts.map(part => part.value).join(''), and textBuffer += part.value
JoinValues(parts) ==
  IF parts = <<>> THEN <<>> ELSE Head(parts).value \o JoinValues(Tail(parts))

----------------------------------------------------------------------------
(* The request and its validation (AgentSchema, OrchestratorInputSchema)   *)

IdChars == {"a", "b", "c", "1", ".", "_", "-"}

IntTurns(n) == [kind |-> "int", val |-> n]
\* maxTurns left out of the request
AbsentTurns == [kind |-> "absent", val |-> 0]
\* a number that is not an integer, such as 1.5
FractionTurns == [kind |-> "fraction", val |-> 1]

\* /^[a-zA-Z0-9._-]+$/
IdOk(id) == Len(id) >= 1 /\ \A k \in 1..Len(id) : id[k] \in IdChars
\* z.string().min(1)
PromptOk(p) == p # ""
\* z.number().int().min(1).max(100).default(50)
MaxTurnsOk(m) ==
  \/ m.kind = "absent"
  \/ m.kind = "int" /\ m.val >= MinTurns /\ m.val <= MaxTurnsLimit

AgentOk(a) ==
  IdOk(a.id) /\ PromptOk(a.systemPrompt) /\ PromptOk(a.userPrompt) /\ MaxTurnsOk(a.maxTurns)

ParseSuccessFirstAgentOnly(in) ==
  /\ Len(in.agents) >= MinAgents
  /\ Len(in.agents) <= MaxAgents
  /\ AgentOk(in.agents[1])

\* OrchestratorInputSchema.safeParse(options.input).success
ParseSuccess(in) ==
  /\ Len(in.agents) >= MinAgents
  /\ Len(in.agents) <= MaxAgents
  /\ \A k \in 1..Len(in.agents) : AgentOk(in.agents[k])

\* the fields the parse error names: <<agent index, field>>, index 0 for the list
ParseIssues(in) ==
  {<<0, "agents">> : x \in {y \in {1} : Len(in.agents) < MinAgents \/ Len(in.agents) > MaxAgents}}
  \cup {<<k, "id">> : k \in {j \in 1..Len(in.agents) : ~IdOk(in.agents[j].id)}}
  \cup {<<k, "systemPrompt">> : k \in {j \in 1..Len(in.agents) : ~PromptOk(in.agents[j].systemPrompt)}}
  \cup {<<k, "userPrompt">> : k \in {j \in 1..Len(in.agents) : ~PromptOk(in.agents[j].userPrompt)}}
  \cup {<<k, "maxTurns">> : k \in {j \in 1..Len(in.agents) : ~MaxTurnsOk(in.agents[j].maxTurns)}}

\* parsed.data: the agents with the default of maxTurns filled in
ParsedAgents(in) ==
  [k \in 1..Len(in.agents) |->
     [id |-> in.agents[k].id,
      systemPrompt |-> in.agents[k].systemPrompt,
      userPrompt |-> in.agents[k].userPrompt,
      maxTurns |-> IF in.agents[k].maxTurns.kind = "absent"
                   THEN DefaultMaxTurns ELSE in.agents[k].maxTurns.val]]

----------------------------------------------------------------------------
(* The tool catalogue                                                      *)

FilterToolsUnfiltered(tools) == tools

FilterToolsInverted(tools) == {t \in tools : t = SelfName}

\* vscode.lm.tools.filter(toolInfo => toolInfo.name !== 'orchestrateSubagents')
FilterTools(tools) == {t \in tools : t # SelfName}

----------------------------------------------------------------------------
(* State                                                                   *)

VARIABLES
  input,        \* options.input, the request
  registry,     \* vscode.lm.tools: the names of the registered tools
  menu,         \* the streams the chat model may answer with
  cancelled,    \* token.isCancellationRequested
  ipc,          \* position of invoke
  resolved,     \* what selectChatModels and canSendRequest answered to resolveModel
  availableTools,
  sub,          \* per launched subagent: the locals of its runSubagent call
  result,       \* what invoke returned
  finishOrder,  \* history: the subagents in the order their runs completed
  cancelledInFlight \* history: cancellation was requested while a subagent was running

vars == <<input, registry, menu, cancelled, ipc, resolved, availableTools, sub, result,
          finishOrder, cancelledInFlight>>

NoResult == [kind |-> "none", subagents |-> <<>>, issues |-> {}]

Agents == ParsedAgents(input)
Launched == DOMAIN sub

----------------------------------------------------------------------------
(* runSubagent                                                             *)

UserPrompt(kind) == [role |-> "User", prompt |-> kind, parts |-> <<>>]
AssistantMessage(parts) == [role |-> "Assistant", prompt |-> "none", parts |-> parts]
ToolResultContent == <<"r">>

ToolResultMessageUnkeyed(callId) ==
  [role |-> "User", prompt |-> "none",
   parts |-> <<[type |-> "toolResult", value |-> ToolResultContent, name |-> "", callId |-> NoCallId]>>]

ToolResultMessage(callId) ==
  [role |-> "User", prompt |-> "none",
   parts |-> <<[type |-> "toolResult", value |-> ToolResultContent, name |-> "", callId |-> callId]>>]

\* the locals of a runSubagent call that has reached its first await (line 109)
Started ==
  [pc |-> "countInitialTokens",
   turn |-> 0, turns |-> 0, toolInvocations |-> 0,
   accumulatedText |-> <<>>, exhaustedTurnBudget |-> TRUE,
   messages |-> <<>>, toolCalls |-> <<>>, error |-> "none",
   \* history
   requests |-> <<>>, dispatches |-> <<>>, responses |-> <<>>,
   summaryResponses |-> <<>>, summaryFailed |-> FALSE, atLoopExit |-> <<>>]

ThrowIfCancelledNever(token) == FALSE

\* throwIfCancelled: whether it throws
ThrowIfCancelled(token) == token

LoopContinuesOneMore(turn, maxTurns) == turn <= maxTurns

\* the loop condition turn < maxTurns
LoopContinues(turn, maxTurns) == turn < maxTurns

CountsAsTurnAlways(assistantParts) == TRUE

\* assistantParts.length > 0
CountsAsTurn(assistantParts) == Len(assistantParts) > 0

AccumulateTrimmedChunk(accumulatedText, textBuffer) ==
  Trim(accumulatedText \o BlankLine \o Trim(textBuffer))

\* `${accumulatedText}\n\n${textBuffer}`.trim()
Accumulate(accumulatedText, textBuffer) ==
  Trim(accumulatedText \o BlankLine \o textBuffer)

Fail(s, err) == [s EXCEPT !.pc = "failed", !.error = err]

BreakLoopKeepFlag(s) == s

\* lines 172-176: exhaustedTurnBudget = false; break
BreakLoop(s) == [s EXCEPT !.exhaustedTurnBudget = FALSE]

\* lines 259-267: the outcome is returned
Finish(s) == [s EXCEPT !.pc = "done"]

\* lines 219-232: the summary prompt is appended and the summary request issued
EnterSummary(s, token) ==
  [s EXCEPT !.messages = Append(@, UserPrompt("summary")),
            !.pc = "summaryRequest",
            !.requests = Append(@, [kind |-> "summary", tools |-> {}, cancelled |-> token,
                                    messages |-> Append(s.messages, UserPrompt("summary"))]),
            !.atLoopExit = <<[turns |-> s.turns, toolInvocations |-> s.toolInvocations,
                              accumulatedText |-> s.accumulatedText,
                              messages |-> s.messages, dispatches |-> s.dispatches]>>]

AfterLoopAlwaysSummary(s, token) == EnterSummary(s, token)

\* line 219: the summary phase is entered when exhaustedTurnBudget is still true
AfterLoop(s, token) ==
  IF s.exhaustedTurnBudget THEN EnterSummary(s, token) ELSE Finish(s)

\* the head of the for loop, up to the await of countConversationTokens
LoopHead(s, maxTurns, token) ==
  IF LoopContinues(s.turn, maxTurns)
  THEN IF ThrowIfCancelled(token)
       THEN Fail(s, "cancelled")
       ELSE [s EXCEPT !.pc = "countConversationTokens"]
  ELSE AfterLoop(s, token)

DispatchNextOnlyFirst(s, maxTurns, token) ==
  IF s.toolCalls = <<>>
       \/ Len(s.toolCalls) < Len(SelectSeq(s.responses[Len(s.responses)], IsToolCall))
  THEN LoopHead([s EXCEPT !.turn = @ + 1, !.toolCalls = <<>>], maxTurns, token)
  ELSE IF ThrowIfCancelled(token)
       THEN Fail(s, "cancelled")
       ELSE [s EXCEPT !.pc = "invokeTool",
                      !.dispatches = Append(@, [name |-> Head(s.toolCalls).name,
                                                callId |-> Head(s.toolCalls).callId,
                                                offered |-> s.requests[Len(s.requests)].tools,
                                                cancelled |-> token])]

\* the head of the for-of loop over toolCalls, up to the await of invokeTool
DispatchNext(s, maxTurns, token) ==
  IF s.toolCalls = <<>>
  THEN LoopHead([s EXCEPT !.turn = @ + 1], maxTurns, token)
  ELSE IF ThrowIfCancelled(token)
       THEN Fail(s, "cancelled")
       ELSE [s EXCEPT !.pc = "invokeTool",
                      !.dispatches = Append(@, [name |-> Head(s.toolCalls).name,
                                                callId |-> Head(s.toolCalls).callId,
                                                offered |-> s.requests[Len(s.requests)].tools,
                                                cancelled |-> token])]

\* lines 145-178: the response stream has been consumed to its end
ProcessResponse(s, stream, maxTurns, token) ==
  LET assistantParts == SelectSeq(stream, IsAssistantPart)
      toolCalls == SelectSeq(stream, IsToolCall)
      textBuffer == JoinValues(SelectSeq(stream, IsText))
      s1 == [s EXCEPT
               !.messages = IF CountsAsTurn(assistantParts)
                            THEN Append(@, AssistantMessage(assistantParts)) ELSE @,
               !.turns = IF CountsAsTurn(assistantParts) THEN @ + 1 ELSE @,
               !.accumulatedText = IF Len(Trim(textBuffer)) > 0
                                   THEN Accumulate(@, textBuffer) ELSE @,
               !.toolCalls = toolCalls,
               !.responses = Append(@, stream)]
  IN IF Len(toolCalls) = 0
     THEN AfterLoop(BreakLoop(s1), token)
     ELSE DispatchNext(s1, maxTurns, token)

ProcessSummaryKeepsCalls(s, stream) ==
  LET summaryParts == SelectSeq(stream, IsAssistantPart)
      combined == JoinValues(SelectSeq(stream, IsText))
  IN Finish([s EXCEPT
               !.messages = IF Len(summaryParts) > 0
                            THEN Append(@, AssistantMessage(summaryParts)) ELSE @,
               !.accumulatedText = IF Len(summaryParts) > 0 /\ Len(Trim(combined)) > 0
                                   THEN Accumulate(@, combined) ELSE @,
               !.summaryResponses = Append(@, stream)])

\* lines 234-253: the summary stream has been consumed to its end
ProcessSummary(s, stream) ==
  LET summaryParts == SelectSeq(stream, IsText)
      combined == JoinValues(summaryParts)
  IN Finish([s EXCEPT
               !.messages = IF Len(summaryParts) > 0
                            THEN Append(@, AssistantMessage(summaryParts)) ELSE @,
               !.accumulatedText = IF Len(summaryParts) > 0 /\ Len(Trim(combined)) > 0
                                   THEN Accumulate(@, combined) ELSE @,
               !.summaryResponses = Append(@, stream)])

SummaryRethrow(s) == Fail([s EXCEPT !.summaryFailed = TRUE], "model")

\* lines 254-256: a failure of the summary phase is logged and swallowed
SummaryCatch(s) == Finish([s EXCEPT !.summaryFailed = TRUE])

----------------------------------------------------------------------------
(* Aggregation                                                             *)

\* one entry of buildAggregatedResponse
Entry(agent, s) ==
  [id |-> agent.id, systemPrompt |-> agent.systemPrompt, userPrompt |-> agent.userPrompt,
   maxTurns |-> agent.maxTurns, turnsTaken |-> s.turns, toolCalls |-> s.toolInvocations,
   summary |-> s.accumulatedText]

PromiseAllCompletionOrder(agents, subs, order) ==
  [k \in 1..Len(order) |-> Entry(agents[order[k]], subs[order[k]])]

\* Promise.all(tasks) followed by buildAggregatedResponse(results): the values in
\* the order of the tasks
PromiseAll(agents, subs, order) ==
  [k \in 1..Len(agents) |-> Entry(agents[k], subs[k])]

PromiseAllSettled(subs) == \A k \in DOMAIN subs : subs[k].pc \in {"done", "failed"}

\* Promise.all fulfils when every task has fulfilled
PromiseAllFulfilled(subs) == \A k \in DOMAIN subs : subs[k].pc = "done"

\* Promise.all rejects as soon as one task has rejected
PromiseAllRejected(subs) == \E k \in DOMAIN subs : subs[k].pc = "failed"

----------------------------------------------------------------------------
(* The requests, registries and model answers the specifications draw from *)

AgentA(m) == [id |-> <<"a">>, systemPrompt |-> "SA", userPrompt |-> "UA", maxTurns |-> m]
AgentB(m) == [id |-> <<"b", "-", "1">>, systemPrompt |-> "SB", userPrompt |-> "UB", maxTurns |-> m]
AgentC(m) == [id |-> <<"c", ".", "_">>, systemPrompt |-> "SC", userPrompt |-> "UC", maxTurns |-> m]

Request(agents) == [agents |-> agents]

InvalidRequests ==
  { Request(<<>>),
    Request(<<AgentA(IntTurns(1)), AgentB(IntTurns(1)), AgentC(IntTurns(1)), AgentA(IntTurns(1))>>),
    Request(<<[AgentA(IntTurns(1)) EXCEPT !.id = <<>>]>>),
    Request(<<[AgentA(IntTurns(1)) EXCEPT !.id = <<"a", " ">>]>>),
    Request(<<AgentA(IntTurns(1)), [AgentB(IntTurns(1)) EXCEPT !.id = <<"!">>]>>),
    Request(<<[AgentA(IntTurns(1)) EXCEPT !.systemPrompt = ""]>>),
    Request(<<[AgentA(AbsentTurns) EXCEPT !.userPrompt = ""]>>),
    Request(<<AgentA(IntTurns(0))>>),
    Request(<<AgentA(IntTurns(MaxTurnsLimit + 1))>>),
    Request(<<AgentA(IntTurns(1)), AgentB(FractionTurns)>>) }

RunRequests == {Request(<<AgentA(IntTurns(n))>>) : n \in 1..MaxTurnsRun}

TextRequests == {Request(<<AgentA(IntTurns(n))>>) : n \in 1..MaxTurnsText}

FanRequests ==
  {Request(<<AgentA(IntTurns(n))>>) : n \in 1..MaxTotalTurns}
  \cup {Request(<<AgentA(IntTurns(n)), AgentB(IntTurns(m))>>) :
          n \in 1..MaxTotalTurns, m \in 1..MaxTotalTurns} 
  \cup {Request(<<AgentA(IntTurns(n)), AgentB(IntTurns(m)), AgentC(IntTurns(l))>>) :
          n \in 1..MaxTotalTurns, m \in 1..MaxTotalTurns, l \in 1..MaxTotalTurns}

\* a request that leaves maxTurns out
DefaultRequests == {Request(<<AgentB(AbsentTurns)>>)}

TotalTurns(in) ==
  LET a == ParsedAgents(in)
  IN (IF Len(a) >= 1 THEN a[1].maxTurns ELSE 0)
     + (IF Len(a) >= 2 THEN a[2].maxTurns ELSE 0)
     + (IF Len(a) >= 3 THEN a[3].maxTurns ELSE 0)

OtherTool == "readFile"

RunRegistries == SUBSET {SelfName, OtherTool}
FanRegistries == {{SelfName, OtherTool}}

X == <<"x">>

RunMenu ==
  { <<>>,
    <<OtherPart>>,
    <<TextPart(X)>>,
    <<ToolCallPart(OtherTool)>>,
    <<TextPart(X), ToolCallPart(SelfName)>>,
    <<ToolCallPart(OtherTool), OtherPart, ToolCallPart(OtherTool)>> }

FanMenu ==
  { <<>>,
    <<TextPart(X)>>,
    <<ToolCallPart(OtherTool)>> }

TextMenu ==
  { <<TextPart(X)>>,
    <<TextPart(<<" ", "x", " ">>)>>,
    <<TextPart(<<"\n">>), TextPart(<<"y">>)>>,
    <<TextPart(<<" ">>)>>,
    <<TextPart(<<" ", "y">>), ToolCallPart(OtherTool)>>,
    <<TextPart(<<"x", "\n">>), ToolCallPart(OtherTool), TextPart(<<" ">>)>>,
    <<ToolCallPart(OtherTool)>> }

----------------------------------------------------------------------------
(* Initial states                                                          *)

InitWith(requests, registries, streams) ==
  /\ input \in requests
  /\ registry \in registries
  /\ menu = streams
  /\ cancelled = FALSE
  /\ ipc = "idle"
  /\ resolved = <<>>
  /\ availableTools = {}
  /\ sub = <<>>
  /\ result = NoResult
  /\ finishOrder = <<>>
  /\ cancelledInFlight = FALSE

Init == InitWith(RunRequests \cup InvalidRequests, RunRegistries, RunMenu)

InitFan ==
  InitWith({r \in FanRequests : TotalTurns(r) <= MaxTotalTurns}
             \cup DefaultRequests \cup InvalidRequests,
           FanRegistries, FanMenu)

InitText == InitWith(TextRequests \cup InvalidRequests, FanRegistries, TextMenu)

----------------------------------------------------------------------------
(* invoke                                                                  *)

\* lines 52-62: the parse fails, the error message is the result
InvokeInvalid ==
  /\ ipc = "idle"
  /\ ~ParseSuccess(input)
  /\ ipc' = "returned"
  /\ result' = [kind |-> "error", subagents |-> <<>>, issues |-> ParseIssues(input)]
  /\ UNCHANGED <<resolved, input, registry, menu, cancelled, availableTools, sub, finishOrder,
                 cancelledInFlight>>

\* lines 52, 64-65: the parse succeeds, resolveModel awaits selectChatModels
InvokeValid ==
  /\ ipc = "idle"
  /\ ParseSuccess(input)
  /\ ipc' = "resolveModel"
  /\ UNCHANGED <<resolved, input, registry, menu, cancelled, availableTools, sub, result,
                 finishOrder, cancelledInFlight>>

ResolveModelIgnoresAccess(models, canSend) ==
  IF models = 0 THEN "unavailable" ELSE "ok"

\* resolveModel, given the number of models selected and canSendRequest's answer
ResolveModel(models, canSend) ==
  IF models = 0 THEN "unavailable"
  ELSE IF canSend = "false" THEN "denied"
  ELSE "ok"

CanSendAnswers == {"true", "false", "undefined"}

ResolveModelFails ==
  /\ ipc = "resolveModel"
  /\ \E models \in 0..1, canSend \in CanSendAnswers :
       /\ ResolveModel(models, canSend) # "ok"
       /\ resolved' = <<[models |-> models, canSend |-> canSend]>>
  /\ ipc' = "rejected"
  /\ UNCHANGED <<input, registry, menu, cancelled, availableTools, sub, result,
                 finishOrder, cancelledInFlight>>

\* lines 65-88: the model is resolved, the catalogue built, every runSubagent
\* call runs to its first await, and invoke awaits Promise.all
LaunchSubagents ==
  /\ ipc = "resolveModel"
  /\ \E models \in 0..1, canSend \in CanSendAnswers :
       /\ ResolveModel(models, canSend) = "ok"
       /\ resolved' = <<[models |-> models, canSend |-> canSend]>>
  /\ availableTools' = FilterTools(registry)
  /\ sub' = [k \in 1..Len(Agents) |-> Started]
  /\ ipc' = "running"
  /\ UNCHANGED <<input, registry, menu, cancelled, result, finishOrder, cancelledInFlight>>

\* lines 88-93
InvokeReturns ==
  /\ ipc = "running"
  /\ PromiseAllFulfilled(sub)
  /\ result' = [kind |-> "report", subagents |-> PromiseAll(Agents, sub, finishOrder),
                issues |-> {}]
  /\ ipc' = "returned"
  /\ UNCHANGED <<resolved, input, registry, menu, cancelled, availableTools, sub, finishOrder,
                 cancelledInFlight>>

\* line 88: the await of Promise.all throws
InvokeRejects ==
  /\ ipc = "running"
  /\ PromiseAllRejected(sub)
  /\ ipc' = "rejected"
  /\ UNCHANGED <<resolved, input, registry, menu, cancelled, availableTools, sub, result,
                 finishOrder, cancelledInFlight>>

\* the caller requests cancellation
Cancel ==
  /\ ~cancelled
  /\ cancelled' = TRUE
  /\ cancelledInFlight' = \E k \in Launched : sub[k].pc \notin {"done", "failed"}
  /\ UNCHANGED <<resolved, input, registry, menu, ipc, availableTools, sub, result, finishOrder>>

----------------------------------------------------------------------------
(* The steps of a subagent: each resumes one await of runSubagent          *)

ResumeSharedCounter(i, s) ==
  /\ sub' = [j \in DOMAIN sub |->
               IF j = i THEN s ELSE [sub[j] EXCEPT !.toolInvocations = s.toolInvocations]]
  /\ finishOrder' = IF s.pc = "done" THEN Append(finishOrder, i) ELSE finishOrder
  /\ UNCHANGED <<resolved, input, registry, menu, cancelled, ipc, availableTools, result,
                 cancelledInFlight>>

\* one runSubagent call resumes from an await and runs to its next await, writing
\* only its own locals (lines 107-120)
Resume(i, s) ==
  /\ sub' = [sub EXCEPT ![i] = s]
  /\ finishOrder' = IF s.pc = "done" THEN Append(finishOrder, i) ELSE finishOrder
  /\ UNCHANGED <<resolved, input, registry, menu, cancelled, ipc, availableTools, result,
                 cancelledInFlight>>

\* lines 109-124: the token count of the initial prompt returns or fails (the
\* failure is caught); the transcript is seeded and the loop entered
CountInitialTokensDone(i) ==
  /\ sub[i].pc = "countInitialTokens"
  /\ Resume(i, LoopHead([sub[i] EXCEPT !.messages = <<UserPrompt("initial")>>],
                        Agents[i].maxTurns, cancelled))

\* lines 124-139: countConversationTokens returns; the turn request is issued
CountConversationTokensDone(i) ==
  /\ sub[i].pc = "countConversationTokens"
  /\ Resume(i, [sub[i] EXCEPT
                  !.pc = "sendRequest",
                  !.requests = Append(@, [kind |-> "turn", tools |-> availableTools,
                                          cancelled |-> cancelled,
                                          messages |-> sub[i].messages])])

\* line 132: sendRequest returns the response
SendRequestReturns(i) ==
  /\ sub[i].pc = "sendRequest"
  /\ Resume(i, [sub[i] EXCEPT !.pc = "stream"])

\* lines 140-143
SendRequestFails(i) ==
  /\ sub[i].pc = "sendRequest"
  /\ Resume(i, Fail(sub[i], "model"))

\* lines 149-197: the stream ends
StreamEnds(i) ==
  /\ sub[i].pc = "stream"
  /\ \E r \in menu :
       Resume(i, ProcessResponse(sub[i], StampCallIds(r, Len(sub[i].requests)),
                                 Agents[i].maxTurns, cancelled))

\* line 149: the stream throws, after any number of parts
StreamFails(i) ==
  /\ sub[i].pc = "stream"
  /\ Resume(i, Fail(sub[i], "stream"))

\* lines 186-202: invokeTool returns; the token count of the tool message is awaited
InvokeToolReturns(i) ==
  /\ sub[i].pc = "invokeTool"
  /\ Resume(i, [sub[i] EXCEPT !.pc = "countToolTokens"])

\* lines 194-197
InvokeToolFails(i) ==
  /\ sub[i].pc = "invokeTool"
  /\ Resume(i, Fail(sub[i], "tool"))

\* lines 202-216, then the next call, the next turn or the summary request
CountToolTokensDone(i) ==
  /\ sub[i].pc = "countToolTokens"
  /\ Resume(i, DispatchNext([sub[i] EXCEPT
                               !.messages = Append(@, ToolResultMessage(Head(sub[i].toolCalls).callId)),
                               !.toolInvocations = @ + 1,
                               !.toolCalls = Tail(@)],
                            Agents[i].maxTurns, cancelled))

\* line 225: the summary request returns the response
SummaryRequestReturns(i) ==
  /\ sub[i].pc = "summaryRequest"
  /\ Resume(i, [sub[i] EXCEPT !.pc = "summaryStream"])

\* lines 225, 254-256
SummaryRequestFails(i) ==
  /\ sub[i].pc = "summaryRequest"
  /\ Resume(i, SummaryCatch(sub[i]))

\* lines 234-253, 259-267
SummaryStreamEnds(i) ==
  /\ sub[i].pc = "summaryStream"
  /\ \E r \in menu :
       Resume(i, ProcessSummary(sub[i], StampCallIds(r, Len(sub[i].requests))))

\* lines 235, 254-256
SummaryStreamFails(i) ==
  /\ sub[i].pc = "summaryStream"
  /\ Resume(i, SummaryCatch(sub[i]))

Next ==
  \/ InvokeInvalid
  \/ InvokeValid
  \/ ResolveModelFails
  \/ LaunchSubagents
  \/ InvokeReturns
  \/ InvokeRejects
  \/ Cancel
  \/ \E i \in Launched : CountInitialTokensDone(i)
  \/ \E i \in Launched : CountConversationTokensDone(i)
  \/ \E i \in Launched : SendRequestReturns(i)
  \/ \E i \in Launched : SendRequestFails(i)
  \/ \E i \in Launched : StreamEnds(i)
  \/ \E i \in Launched : StreamFails(i)
  \/ \E i \in Launched : InvokeToolReturns(i)
  \/ \E i \in Launched : InvokeToolFails(i)
  \/ \E i \in Launched : CountToolTokensDone(i)
  \/ \E i \in Launched : SummaryRequestReturns(i)
  \/ \E i \in Launched : SummaryRequestFails(i)
  \/ \E i \in Launched : SummaryStreamEnds(i)
  \/ \E i \in Launched : SummaryStreamFails(i)

Spec == Init /\ [][Next]_vars
SpecFan == InitFan /\ [][Next]_vars
SpecText == InitText /\ [][Next]_vars

\* the steps of invoke itself
InvokeSteps ==
  \/ InvokeInvalid
  \/ InvokeValid
  \/ ResolveModelFails
  \/ LaunchSubagents
  \/ InvokeReturns
  \/ InvokeRejects

\* the steps of the i-th runSubagent call
RunSteps(i) ==
  /\ i \in Launched
  /\ \/ CountInitialTokensDone(i)
     \/ CountConversationTokensDone(i)
     \/ SendRequestReturns(i)
     \/ SendRequestFails(i)
     \/ StreamEnds(i)
     \/ StreamFails(i)
     \/ InvokeToolReturns(i)
     \/ InvokeToolFails(i)
     \/ CountToolTokensDone(i)
     \/ SummaryRequestReturns(i)
     \/ SummaryRequestFails(i)
     \/ SummaryStreamEnds(i)
     \/ SummaryStreamFails(i)

\* every awaited promise eventually settles and its continuation is run; the caller
\* is not bound to cancel
SpecLive ==
  /\ InitFan
  /\ [][Next]_vars
  /\ WF_vars(InvokeSteps)
  /\ \A i \in MinAgents..MaxAgents : WF_vars(RunSteps(i))

----------------------------------------------------------------------------
(* Properties                                                              *)

Done(i) == sub[i].pc = "done"
Reported == ipc = "returned" /\ result.kind = "report"

HasAssistantPart(stream) == \E j \in 1..Len(stream) : IsAssistantPart(stream[j])
HasToolCall(stream) == \E j \in 1..Len(stream) : IsToolCall(stream[j])
HasText(stream) == \E j \in 1..Len(stream) : IsText(stream[j])

TurnRequests(i) == {k \in 1..Len(sub[i].requests) : sub[i].requests[k].kind = "turn"}
SummaryRequests(i) == {k \in 1..Len(sub[i].requests) : sub[i].requests[k].kind = "summary"}

\* the maxTurns a request asks for: the number given, 50 when none is given
RequestedMaxTurns(a) == IF a.maxTurns.kind = "absent" THEN 50 ELSE a.maxTurns.val

\* C1: when invoke returns a report, the report has one entry per requested
\* agent and entry k carries the id, the prompts and the maxTurns of the k-th
\* agent of the request, whatever order the runs completed in.
C1_ReportInRequestOrder ==
  Reported =>
    /\ Len(result.subagents) = Len(input.agents)
    /\ \A k \in 1..Len(input.agents) :
         /\ result.subagents[k].id = input.agents[k].id
         /\ result.subagents[k].systemPrompt = input.agents[k].systemPrompt
         /\ result.subagents[k].userPrompt = input.agents[k].userPrompt
         /\ result.subagents[k].maxTurns = RequestedMaxTurns(input.agents[k])

\* three agents whose runs completed in the order 3, 1, 2, and the report returned
C1_Witness ==
  /\ Reported
  /\ Len(input.agents) = MaxAgents
  /\ finishOrder = <<3, 1, 2>>

\* C2: turns never exceeds maxTurns and is the number of turn-loop responses,
\* consumed to their end, that held at least one text or tool-call part; the
\* response of the summary phase is not counted; the report carries that number.
C2_TurnsTaken ==
  \A i \in Launched :
    LET counted == {k \in 1..Len(sub[i].responses) : HasAssistantPart(sub[i].responses[k])}
    IN /\ sub[i].turns <= Agents[i].maxTurns
       /\ sub[i].turns = Cardinality(counted)
       /\ Reported => result.subagents[i].turnsTaken = Cardinality(counted)

\* a reported run of two turns whose second response held only a part of another
\* kind, which is not counted
C2_Witness ==
  \E i \in Launched :
    /\ Reported
    /\ Len(sub[i].responses) = 2
    /\ sub[i].turns = 1
    /\ Len(sub[i].responses[2]) > 0
    /\ ~HasAssistantPart(sub[i].responses[2])

\* C3: a subagent never issues more than maxTurns turn requests nor more than one
\* summary request, every turn request offers the tool catalogue; and a run that
\* completed with a tool call in every turn-loop response issued exactly maxTurns
\* turn requests followed by exactly one summary request, and has turns = maxTurns.
C3_BudgetExhaustion ==
  \A i \in Launched :
    /\ Cardinality(TurnRequests(i)) <= Agents[i].maxTurns
    /\ Cardinality(SummaryRequests(i)) <= 1
    /\ \A k \in TurnRequests(i) : sub[i].requests[k].tools = FilterTools(registry)
    /\ (Done(i) /\ \A k \in 1..Len(sub[i].responses) : HasToolCall(sub[i].responses[k])) =>
         /\ Len(sub[i].requests) = Agents[i].maxTurns + 1
         /\ TurnRequests(i) = 1..Agents[i].maxTurns
         /\ SummaryRequests(i) = {Agents[i].maxTurns + 1}
         /\ sub[i].turns = Agents[i].maxTurns

\* a run with the largest budget that used a tool in every turn and completed
C3_Witness ==
  \E i \in Launched :
    /\ Done(i)
    /\ Agents[i].maxTurns = MaxTurnsRun
    /\ Len(sub[i].responses) = MaxTurnsRun
    /\ \A k \in 1..Len(sub[i].responses) : HasToolCall(sub[i].responses[k])
    /\ Cardinality(SummaryRequests(i)) = 1

NoToolCallAnswered(i) ==
  \A k \in 1..Len(sub[i].responses) : ~HasToolCall(sub[i].responses[k])

\* C4 as claimed: a run whose responses hold no tool call ends after one model
\* request, without a summary phase, with turns = 1 and toolInvocations = 0,
\* whatever the response holds (a response with no parts included).
C4_OneTurnAlways ==
  \A i \in Launched :
    (Done(i) /\ NoToolCallAnswered(i)) =>
      /\ Len(sub[i].requests) = 1
      /\ sub[i].requests[1].kind = "turn"
      /\ sub[i].toolInvocations = 0
      /\ sub[i].turns = 1

\* C4 as amended: a subagent whose responses hold no tool call issues one model
\* request, a turn request, and dispatches no tool; once that response is consumed
\* the run is complete, without a summary phase, with toolInvocations = 0, and with
\* turns = 1 when the response held a text part and turns = 0 when it held none.
C4_OneRequestNoTool ==
  \A i \in Launched :
    NoToolCallAnswered(i) =>
      /\ Len(sub[i].requests) <= 1
      /\ SummaryRequests(i) = {}
      /\ sub[i].dispatches = <<>>
      /\ sub[i].toolInvocations = 0
      /\ Len(sub[i].responses) <= 1
      /\ Len(sub[i].responses) = 1 =>
           /\ Done(i)
           /\ Len(sub[i].requests) = 1
           /\ sub[i].summaryResponses = <<>>
           /\ sub[i].turns = IF HasText(sub[i].responses[1]) THEN 1 ELSE 0
           /\ Reported =>
                /\ result.subagents[i].toolCalls = 0
                /\ result.subagents[i].turnsTaken = sub[i].turns

\* a reported run with the largest budget whose only response held no part
C4_Witness ==
  \E i \in Launched :
    /\ Reported
    /\ Agents[i].maxTurns = MaxTurnsRun
    /\ sub[i].responses = << <<>> >>
    /\ result.subagents[i].turnsTaken = 0

C6_SelfExcludedFromCatalogue ==
  \A i \in Launched : \A k \in 1..Len(sub[i].requests) :
    SelfName \notin sub[i].requests[k].tools

\* the orchestration tool is registered, and a turn request with a non-empty
\* catalogue and the summary request have been issued
C6_Witness ==
  \E i \in Launched :
    /\ SelfName \in registry
    /\ SummaryRequests(i) # {}
    /\ \E k \in TurnRequests(i) : sub[i].requests[k].tools # {}

\* C7 as claimed: no tool dispatch names the orchestration tool, whatever the
\* chat model answers.
C7_NeverDispatchesSelf ==
  \A i \in Launched : \A k \in 1..Len(sub[i].dispatches) :
    sub[i].dispatches[k].name # SelfName

\* C7 as amended: a dispatched tool call that names a tool of the catalogue offered
\* with the turn request never names the orchestration tool; a call naming a tool
\* outside the catalogue is dispatched unchecked.
C7_OfferedDispatchNotSelf ==
  \A i \in Launched : \A k \in 1..Len(sub[i].dispatches) :
    sub[i].dispatches[k].name \in sub[i].dispatches[k].offered =>
      sub[i].dispatches[k].name # SelfName

\* the orchestration tool is registered and a call of an offered tool was dispatched
C7_Witness ==
  \E i \in Launched : \E k \in 1..Len(sub[i].dispatches) :
    /\ SelfName \in registry
    /\ sub[i].dispatches[k].name \in sub[i].dispatches[k].offered

\* C8 as claimed: invoke never returns a report after a cancellation that was
\* requested while a subagent was still running.
C8_NoReportAfterCancel == ~(Reported /\ cancelledInFlight)

\* what a subagent that resumes under a requested cancellation can do: the checks
\* of lines 123 and 181 make it fail before a new turn and before a tool dispatch
PassesNoCheck(i) ==
  /\ sub[i].pc = "countInitialTokens" =>
       sub'[i].pc = "failed" /\ sub'[i].error = "cancelled"
  /\ sub[i].pc = "stream" => sub'[i].pc \in {"failed", "done"}
  /\ sub[i].pc = "countToolTokens" =>
       \/ sub'[i].pc = "failed" /\ sub'[i].error = "cancelled"
       \/ sub'[i].pc = "summaryRequest" /\ sub[i].turn + 1 = Agents[i].maxTurns
  /\ sub'[i].pc \notin {"countConversationTokens", "invokeTool"}

\* C8 as amended: once cancellation is requested, a subagent that reaches a
\* cancellation check (at the start of a turn, before a tool dispatch) fails there,
\* and invoke returns no report once a subagent has failed; a subagent that reaches
\* no further check (its response holds no tool call, or its budget is exhausted
\* and it enters the summary phase) still completes.
C8_FailsAtNextCheck ==
  /\ [][cancelled => \A i \in Launched : sub'[i].pc # sub[i].pc => PassesNoCheck(i)]_vars
  /\ []((\E i \in Launched : sub[i].pc = "failed") => ~Reported /\ ~ENABLED InvokeReturns)

\* cancellation was requested while a subagent was running, that subagent failed
\* at a check, another had completed, and invoke rejected
C8_Witness ==
  /\ cancelledInFlight
  /\ ipc = "rejected"
  /\ \E i \in Launched : sub[i].pc = "failed" /\ sub[i].error = "cancelled"
                         /\ sub[i].toolInvocations > 0
  /\ \E j \in Launched : Done(j)

\* C9: when the summary request or its response stream fails, the subagent still
\* completes, with the turns, toolInvocations and accumulatedText it had when the
\* turn loop exited, and the report carries them; the failure makes no task
\* fail, so invoke does not reject unless another subagent failed.
C9_SummaryFailureSwallowed ==
  \A i \in Launched :
    sub[i].summaryFailed =>
      /\ Done(i)
      /\ sub[i].error = "none"
      /\ sub[i].turns = sub[i].atLoopExit[1].turns
      /\ sub[i].toolInvocations = sub[i].atLoopExit[1].toolInvocations
      /\ sub[i].accumulatedText = sub[i].atLoopExit[1].accumulatedText
      /\ (\A j \in Launched : sub[j].pc # "failed") => ipc # "rejected"
      /\ Reported =>
           /\ result.subagents[i].turnsTaken = sub[i].atLoopExit[1].turns
           /\ result.subagents[i].toolCalls = sub[i].atLoopExit[1].toolInvocations
           /\ result.subagents[i].summary = sub[i].atLoopExit[1].accumulatedText

\* a reported run whose summary phase failed after the turn loop had gathered text
\* and tool calls
C9_Witness ==
  \E i \in Launched :
    /\ Reported
    /\ sub[i].summaryFailed
    /\ result.subagents[i].summary # <<>>
    /\ result.subagents[i].toolCalls > 1

RECURSIVE JoinChunks(_)
\* the chunks, each trimmed, joined with one blank line
JoinChunks(chunks) ==
  IF chunks = <<>> THEN <<>>
  ELSE IF Len(chunks) = 1 THEN Trim(chunks[1])
  ELSE Trim(chunks[1]) \o BlankLine \o JoinChunks(Tail(chunks))

TextOf(stream) == JoinValues(SelectSeq(stream, IsText))
NotBlank(text) == Trim(text) # <<>>

\* the texts of the turn-loop responses, then of the summary response, that are
\* not all whitespace
Chunks(i) ==
  LET texts == [k \in 1..Len(sub[i].responses) |-> TextOf(sub[i].responses[k])]
               \o [k \in 1..Len(sub[i].summaryResponses) |-> TextOf(sub[i].summaryResponses[k])]
  IN SelectSeq(texts, NotBlank)

\* C10 as claimed: the summary of a completed subagent is its chunks, each trimmed
\* at both ends, joined with exactly one blank line.
C10_SummaryIsTrimmedChunks ==
  \A i \in Launched : Done(i) => sub[i].accumulatedText = JoinChunks(Chunks(i))

\* C11: when the model selector matches no model, or access to the selected model
\* is denied, invoke rejects before any subagent starts: no runSubagent call, and
\* so no transcript, no model request and no tool dispatch, exists, and no tool
\* catalogue was built.
C11_NoModelNoSubagent ==
  (resolved # <<>> /\ (resolved[1].models = 0 \/ resolved[1].canSend = "false")) =>
    /\ ipc = "rejected"
    /\ sub = <<>>
    /\ finishOrder = <<>>
    /\ availableTools = {}
    /\ result = NoResult

\* a model was selected, access to it was denied, and invoke rejected
C11_Witness ==
  /\ resolved # <<>>
  /\ resolved[1].models = 1
  /\ resolved[1].canSend = "false"
  /\ ipc = "rejected"

\* what the claim calls an input that fails validation
InvalidAgent(a) ==
  \/ a.id = <<>>
  \/ \E k \in 1..Len(a.id) : a.id[k] \notin {"a", "b", "c", "1", ".", "_", "-"}
  \/ a.systemPrompt = ""
  \/ a.userPrompt = ""
  \/ a.maxTurns.kind = "fraction"
  \/ a.maxTurns.kind = "int" /\ (a.maxTurns.val < 1 \/ a.maxTurns.val > 100)

InvalidInput ==
  \/ Len(input.agents) < 1
  \/ Len(input.agents) > 3
  \/ \E k \in 1..Len(input.agents) : InvalidAgent(input.agents[k])

\* C12: for an input that fails validation, invoke returns one error message that
\* names a violated field, and nothing else happens: the model is not resolved, no
\* subagent is launched (none of the agents of the request is accepted), so no
\* model request is issued and no tool dispatched.
C12_InvalidInputRunsNothing ==
  InvalidInput =>
    /\ ipc \in {"idle", "returned"}
    /\ resolved = <<>>
    /\ sub = <<>>
    /\ availableTools = {}
    /\ ipc = "returned" => result.kind = "error" /\ result.issues # {}
    /\ ipc = "idle" => result = NoResult

\* the error returned for a request whose first agent is valid and whose second is not
C12_Witness ==
  /\ ipc = "returned"
  /\ result.kind = "error"
  /\ Len(input.agents) = 2
  /\ ~InvalidAgent(input.agents[1])
  /\ InvalidAgent(input.agents[2])

\* C13: no model request and no tool dispatch is issued in a state where
\* cancellation has already been requested.
C13_NothingIssuedAfterCancel ==
  \A i \in Launched :
    /\ \A k \in 1..Len(sub[i].requests) : ~sub[i].requests[k].cancelled
    /\ \A k \in 1..Len(sub[i].dispatches) : ~sub[i].dispatches[k].cancelled

\* C14: when invoke has returned or rejected, every launched subagent has produced
\* its outcome or failed.
C14_InvokeEndsAfterAllSubagents ==
  ipc \in {"returned", "rejected"} =>
    \A i \in Launched : sub[i].pc \in {"done", "failed"}

IsToolResult(msg) == Len(msg.parts) = 1 /\ msg.parts[1].type = "toolResult"
CallsOf(msg) == SelectSeq(msg.parts, IsToolCall)

\* in a transcript, every Assistant message is followed at once by the results of
\* its tool calls, one per call, keyed by the call's identifier, in the order of
\* the calls, and no other message holds a result
Answered(msgs) ==
  /\ \A m \in 1..Len(msgs) :
       msgs[m].role = "Assistant" =>
         LET calls == CallsOf(msgs[m])
         IN /\ m + Len(calls) <= Len(msgs)
            /\ \A j \in 1..Len(calls) :
                 /\ IsToolResult(msgs[m + j])
                 /\ msgs[m + j].parts[1].callId = calls[j].callId
                 /\ Cardinality({n \in 1..Len(msgs) :
                       IsToolResult(msgs[n]) /\ msgs[n].parts[1].callId = calls[j].callId}) = 1
  /\ \A n \in 1..Len(msgs) :
       IsToolResult(msgs[n]) =>
         \E m \in 1..(n - 1) :
           /\ msgs[m].role = "Assistant"
           /\ n - m <= Len(CallsOf(msgs[m]))
           /\ \A o \in (m + 1)..(n - 1) : IsToolResult(msgs[o])

\* C15: the transcript carried by every model request, turn request or summary
\* request, holds for every tool call of its Assistant messages exactly one
\* tool-result message keyed by the call's identifier, placed after that Assistant
\* message in the order the calls were received; so no turn starts before the
\* results of the turn before are all appended.
C15_ResultsBeforeNextRequest ==
  \A i \in Launched : \A k \in 1..Len(sub[i].requests) :
    Answered(sub[i].requests[k].messages)

\* a summary request whose transcript holds an Assistant message with two tool calls
C15_Witness ==
  \E i \in Launched : \E k \in SummaryRequests(i) :
    \E m \in 1..Len(sub[i].requests[k].messages) :
      /\ sub[i].requests[k].messages[m].role = "Assistant"
      /\ Len(CallsOf(sub[i].requests[k].messages[m])) = 2
      /\ Len(sub[i].requests[k].messages) > m + 2

\* what a run returns as its outcome, with its transcript
OutcomeOf(i) ==
  [turns |-> sub[i].turns, toolInvocations |-> sub[i].toolInvocations,
   accumulatedText |-> sub[i].accumulatedText, messages |-> sub[i].messages]

\* what a run was given: its turn budget, the responses of the model and whether
\* the summary request failed (the tool results are the same content for every call)
GivenTo(i) ==
  [maxTurns |-> Agents[i].maxTurns, responses |-> sub[i].responses,
   summaryResponses |-> sub[i].summaryResponses, summaryFailed |-> sub[i].summaryFailed]

\* a step writes the locals of at most one run, and never those of a run that has
\* returned or failed
OwnWritesOnly ==
  DOMAIN sub' = DOMAIN sub =>
    /\ Cardinality({i \in DOMAIN sub : sub'[i] # sub[i]}) <= 1
    /\ \A i \in DOMAIN sub : sub[i].pc \in {"done", "failed"} => sub'[i] = sub[i]

\* C16: every step writes the transcript, counters and text of one run only, and two
\* runs that were given the same turn budget and the same responses return the same
\* turns, toolInvocations, accumulatedText and transcript, whatever the interleaving
\* with the other runs was.
C16_NoInterference ==
  /\ [][OwnWritesOnly]_vars
  /\ [](\A i \in Launched : \A j \in Launched :
          (Done(i) /\ Done(j) /\ GivenTo(i) = GivenTo(j)) => OutcomeOf(i) = OutcomeOf(j))

\* two runs of one invoke were given the same responses, a tool call among them, and
\* a third run, given others, returned between them
C16_Witness ==
  /\ Reported
  /\ Len(finishOrder) = 3
  /\ GivenTo(finishOrder[1]) = GivenTo(finishOrder[3])
  /\ GivenTo(finishOrder[2]) # GivenTo(finishOrder[1])
  /\ sub[finishOrder[1]].toolInvocations = 1

\* the transcript after the loop exit: the transcript at the exit, the summary
\* prompt, then at most one Assistant message made of text parts only
SummaryTranscript(s) ==
  LET before == s.atLoopExit[1].messages
      n == Len(before)
  IN /\ Len(s.messages) \in {n + 1, n + 2}
     /\ SubSeq(s.messages, 1, n) = before
     /\ s.messages[n + 1] = UserPrompt("summary")
     /\ Len(s.messages) = n + 2 =>
          /\ s.messages[n + 2].role = "Assistant"
          /\ \A j \in 1..Len(s.messages[n + 2].parts) : IsText(s.messages[n + 2].parts[j])

\* C17: the summary request carries an empty tool catalogue; from the loop exit on,
\* turns, toolInvocations and the dispatches stay as they were at the exit and the
\* transcript only gains the summary prompt and a text-only Assistant message; with
\* maxTurns = 1 and a first response of tool calls without text, the completed run
\* has turns = 1 and the trimmed text of the summary response as accumulatedText.
C17_SummaryPhaseFrame ==
  \A i \in Launched :
    /\ \A k \in SummaryRequests(i) : sub[i].requests[k].tools = {}
    /\ sub[i].atLoopExit # <<>> =>
         /\ sub[i].turns = sub[i].atLoopExit[1].turns
         /\ sub[i].toolInvocations = sub[i].atLoopExit[1].toolInvocations
         /\ sub[i].dispatches = sub[i].atLoopExit[1].dispatches
         /\ SummaryTranscript(sub[i])
    /\ (/\ Done(i)
        /\ Agents[i].maxTurns = 1
        /\ HasToolCall(sub[i].responses[1])
        /\ ~HasText(sub[i].responses[1])) =>
         /\ sub[i].turns = 1
         /\ Len(sub[i].summaryResponses) + (IF sub[i].summaryFailed THEN 1 ELSE 0) = 1
         /\ sub[i].accumulatedText =
              IF sub[i].summaryFailed THEN <<>> ELSE Trim(TextOf(sub[i].summaryResponses[1]))

\* maxTurns = 1, a first response of one tool call, and a summary response with text
\* and a tool call: the run completed with the summary text and one dispatch
C17_Witness ==
  \E i \in Launched :
    /\ Done(i)
    /\ Agents[i].maxTurns = 1
    /\ HasToolCall(sub[i].responses[1]) /\ ~HasText(sub[i].responses[1])
    /\ Len(sub[i].summaryResponses) = 1
    /\ HasToolCall(sub[i].summaryResponses[1])
    /\ sub[i].accumulatedText = X
    /\ Len(sub[i].dispatches) = 1
    /\ sub[i].turns = 1

RECURSIVE CallsIn(_)
\* the tool calls of a sequence of responses, in the order received
CallsIn(responses) ==
  IF responses = <<>> THEN <<>>
  ELSE SelectSeq(Head(responses), IsToolCall) \o CallsIn(Tail(responses))

\* C18: a turn-loop response without a tool call is the last response of its run:
\* the run has completed at once, with one request per response, no summary request
\* and no dispatch beyond the calls of the responses before it; a summary request has
\* been issued only if there are maxTurns responses and each holds a tool call, and
\* a completed run has issued one exactly in that case.
C18_NoToolCallEndsRun ==
  \A i \in Launched :
    /\ \A k \in 1..Len(sub[i].responses) :
         ~HasToolCall(sub[i].responses[k]) =>
           /\ k = Len(sub[i].responses)
           /\ Done(i)
           /\ Len(sub[i].requests) = k
           /\ SummaryRequests(i) = {}
           /\ sub[i].summaryResponses = <<>>
           /\ Len(sub[i].dispatches) = Len(CallsIn(SubSeq(sub[i].responses, 1, k - 1)))
    /\ SummaryRequests(i) # {} =>
         /\ Len(sub[i].responses) = Agents[i].maxTurns
         /\ \A k \in 1..Len(sub[i].responses) : HasToolCall(sub[i].responses[k])
    /\ Done(i) =>
         (SummaryRequests(i) # {} <=>
            /\ Len(sub[i].responses) = Agents[i].maxTurns
            /\ \A k \in 1..Len(sub[i].responses) : HasToolCall(sub[i].responses[k]))

\* the response of the last turn of the budget has no tool call, after turns that
\* all had one: the run completed without a summary request
C18_Witness ==
  \E i \in Launched :
    /\ Done(i)
    /\ Agents[i].maxTurns = MaxTurnsRun
    /\ Len(sub[i].responses) = Agents[i].maxTurns
    /\ ~HasToolCall(sub[i].responses[Len(sub[i].responses)])
    /\ Len(sub[i].requests) = Agents[i].maxTurns
    /\ Len(sub[i].dispatches) >= Agents[i].maxTurns - 1

ToolResultsIn(msgs) == SelectSeq(msgs, IsToolResult)

\* C19: in a completed run the dispatches are the tool calls of the turn-loop
\* responses, each once and in the order received; toolInvocations is their number
\* and the number of tool-result messages of the transcript; with maxTurns = 2, a
\* first response of one tool call and a second of the text X only, the run has
\* turns = 2, toolInvocations = 1 and accumulatedText = X.
C19_EveryCallDispatchedOnce ==
  \A i \in Launched :
    Done(i) =>
      LET calls == CallsIn(sub[i].responses)
      IN /\ Len(sub[i].dispatches) = Len(calls)
         /\ \A k \in 1..Len(calls) :
              /\ sub[i].dispatches[k].name = calls[k].name
              /\ sub[i].dispatches[k].callId = calls[k].callId
         /\ sub[i].toolInvocations = Len(calls)
         /\ Len(ToolResultsIn(sub[i].messages)) = Len(calls)
         /\ (/\ Agents[i].maxTurns = 2
             /\ Len(sub[i].responses) = 2
             /\ Len(sub[i].responses[1]) = 1 /\ IsToolCall(sub[i].responses[1][1])
             /\ sub[i].responses[2] = <<TextPart(X)>>) =>
              /\ sub[i].turns = 2
              /\ sub[i].toolInvocations = 1
              /\ sub[i].accumulatedText = X

\* a completed run of two turns whose first response held two tool calls and whose
\* second was text only
C19_Witness ==
  \E i \in Launched :
    /\ Done(i)
    /\ Agents[i].maxTurns = 2
    /\ Len(sub[i].responses) = 2
    /\ Len(SelectSeq(sub[i].responses[1], IsToolCall)) = 2
    /\ sub[i].responses[2] = <<TextPart(X)>>
    /\ sub[i].toolInvocations = 2
    /\ Len(sub[i].dispatches) = 2
    /\ sub[i].accumulatedText = X

Occurrences(seq, x) == Cardinality({k \in 1..Len(seq) : seq[k] = x})

Ended == 
  /\ ipc \in {"returned", "rejected"}
  /\ \A i \in Launched : sub[i].pc \in {"done", "failed"}
  /\ (ipc = "returned" /\ Launched # {}) => result.kind = "report"

\* C20: a run issues at most maxTurns turn requests and at most one summary request,
\* maxTurns + 1 requests in all, and returns its outcome at most once; when every
\* await eventually settles, every run ends by returning or failing and invoke
\* returns or fails, for good.
C20_BoundedAndTerminates ==
  /\ [](\A i \in Launched :
          /\ Cardinality(TurnRequests(i)) <= Agents[i].maxTurns
          /\ Cardinality(SummaryRequests(i)) <= 1
          /\ Len(sub[i].requests) <= Agents[i].maxTurns + 1
          /\ Occurrences(finishOrder, i) = (IF Done(i) THEN 1 ELSE 0))
  /\ <>[]Ended

\* invoke has returned the report of two runs or more, one of which issued
\* maxTurns + 1 requests
C20_Witness ==
  /\ Reported
  /\ Cardinality(Launched) >= 2
  /\ \E i \in Launched : Len(sub[i].requests) = Agents[i].maxTurns + 1

====
